---- MODULE Spec2Model ----
(***************************************************************************)
(* Personal expense tracker ("Tracker copy/pythonscript.py"): the ledger    *)
(* (ExpenseTracker), its CSV backing file, the amount codec and the menu.   *)
(*                                                                         *)
(* Text is modelled as a sequence of characters, each character a           *)
(* one-element token: <<"1", ",", "5">> is the Python string "1,5".         *)
(* A float is modelled in sign-magnitude form with the magnitude counted    *)
(* in thousandths, plus the two non-finite kinds nan and inf.               *)
(***************************************************************************)
EXTENDS Integers, Sequences, FiniteSets, TLC

\* ------------------------------------------------------------------ text

\* U+00A0 (non-breaking space) and U+20AC (euro sign), one token each.
NBSP == "\\xa0"
EURO == "EUR"

DigitChars == <<"0", "1", "2", "3", "4", "5", "6", "7", "8", "9">>
UpperChars == <<"A", "B", "C", "D", "E", "F", "I", "N", "O", "R", "T", "Y">>
LowerChars == <<"a", "b", "c", "d", "e", "f", "i", "n", "o", "r", "t", "y">>

\* str.isspace() on the characters of the model's alphabet
IsSpace(c) == c \in {" ", "\t", NBSP}

IsDigit(c) == \E i \in 1..Len(DigitChars) : DigitChars[i] = c

DigitVal(c) == (CHOOSE i \in 1..Len(DigitChars) : DigitChars[i] = c) - 1

AllDigits(s) == \A i \in 1..Len(s) : IsDigit(s[i])

\* str.lower(), character by character
LowerChar(c) ==
    IF \E i \in 1..Len(UpperChars) : UpperChars[i] = c
    THEN LowerChars[CHOOSE i \in 1..Len(UpperChars) : UpperChars[i] = c]
    ELSE c

lower(s) == [i \in 1..Len(s) |-> LowerChar(s[i])]

\* c in s
Contains(s, c) == \E i \in 1..Len(s) : s[i] = c

\* s.find(c) + 1: the first position of c in s, 0 when absent
IndexOf(s, c) ==
    IF Contains(s, c) THEN CHOOSE i \in 1..Len(s) : s[i] = c /\ \A j \in 1..(i - 1) : s[j] # c
    ELSE 0

\* s.replace(c, r) for a single character c and a replacement text r
RECURSIVE replace(_, _, _)
replace(s, c, r) ==
    IF s = <<>> THEN <<>>
    ELSE (IF Head(s) = c THEN r ELSE <<Head(s)>>) \o replace(Tail(s), c, r)

RECURSIVE lstrip(_)
lstrip(s) == IF s # <<>> /\ IsSpace(Head(s)) THEN lstrip(Tail(s)) ELSE s

RECURSIVE rstrip(_)
rstrip(s) ==
    IF s # <<>> /\ IsSpace(s[Len(s)]) THEN rstrip(SubSeq(s, 1, Len(s) - 1)) ELSE s

\* str.strip()
strip(s) == rstrip(lstrip(s))

\* int(s) of a digit string
RECURSIVE NatOf(_)
NatOf(s) ==
    IF s = <<>> THEN 0
    ELSE NatOf(SubSeq(s, 1, Len(s) - 1)) * 10 + DigitVal(s[Len(s)])

\* str(n) for n >= 0
RECURSIVE NatStr(_)
NatStr(n) ==
    IF n < 10 THEN <<DigitChars[n + 1]>>
    ELSE NatStr(n \div 10) \o <<DigitChars[(n % 10) + 1]>>

RECURSIVE Pow10(_)
Pow10(n) == IF n = 0 THEN 1 ELSE 10 * Pow10(n - 1)

\* ---------------------------------------------------------------- floats

\* Thousandths per unit: the resolution of the modelled magnitudes.
Scale == Pow10(3)

\* The largest magnitude the model counts; a finite value beyond it saturates.
MaxMag == Pow10(9)

Fin(neg, m) == [k |-> "fin", neg |-> neg, m |-> m]
NaN == [k |-> "nan", neg |-> FALSE, m |-> 0]
Inf(neg) == [k |-> "inf", neg |-> neg, m |-> 0]

\* math.isnan, math.isfinite
isnan(x) == x.k = "nan"
isfinite(x) == x.k = "fin"

\* x == y on floats: nan equals nothing, -0.0 equals 0.0
FloatEq(x, y) ==
    /\ x.k # "nan" /\ y.k # "nan"
    /\ x.k = y.k
    /\ IF x.k = "inf" THEN x.neg = y.neg
       ELSE x.m = y.m /\ (x.m = 0 \/ x.neg = y.neg)

\* abs(x) and -abs(x): the sign bit is cleared or set, nan stays nan
abs(x) == [x EXCEPT !.neg = FALSE]
negabs(x) == IF isnan(x) THEN x ELSE [x EXCEPT !.neg = TRUE]

\* The fractional digits of a literal, as thousandths (digits past the third
\* are below the model's resolution).
FracMills(fp) ==
    LET d(i) == IF i <= Len(fp) THEN DigitVal(fp[i]) ELSE 0
    IN d(1) * 100 + d(2) * 10 + d(3)

\* m * 10^(+/-e) for a decimal literal with an exponent part
ScaleExp(neg, m, eneg, e) ==
    IF m = 0 THEN Fin(neg, 0)
    ELSE IF eneg THEN Fin(neg, IF e > 9 THEN 0 ELSE m \div Pow10(e))
    ELSE IF e >= 312 THEN Inf(neg)
    ELSE IF e <= 3 /\ m * Pow10(e) <= MaxMag THEN Fin(neg, m * Pow10(e))
    ELSE Fin(neg, MaxMag)

\* The decimal-literal branch of float(): digits [. digits] [e [sign] digits]
ParseDecimal(neg, b) ==
    LET epos == IndexOf(b, "e")
        mant == IF epos = 0 THEN b ELSE SubSeq(b, 1, epos - 1)
        expo == IF epos = 0 THEN <<>> ELSE SubSeq(b, epos + 1, Len(b))
        esgn == expo # <<>> /\ expo[1] \in {"+", "-"}
        eneg == expo # <<>> /\ expo[1] = "-"
        edig == IF esgn THEN Tail(expo) ELSE expo
        dot == IndexOf(mant, ".")
        ip == IF dot = 0 THEN mant ELSE SubSeq(mant, 1, dot - 1)
        fp == IF dot = 0 THEN <<>> ELSE SubSeq(mant, dot + 1, Len(mant))
        mantOk == AllDigits(ip) /\ AllDigits(fp) /\ Len(ip) + Len(fp) > 0
        expOk == epos = 0 \/ (edig # <<>> /\ AllDigits(edig))
        m == NatOf(ip) * Scale + FracMills(fp)
    IN IF ~(mantOk /\ expOk) THEN [ok |-> FALSE, v |-> NaN]
       ELSE IF epos = 0 THEN [ok |-> TRUE, v |-> Fin(neg, m)]
       ELSE [ok |-> TRUE, v |-> ScaleExp(neg, m, eneg, NatOf(edig))]

\* float(s) for a string s: ok = FALSE stands for ValueError.
float(s0) ==
    LET s == strip(s0)
        sgn == s # <<>> /\ s[1] \in {"+", "-"}
        neg == s # <<>> /\ s[1] = "-"
        body == lower(IF sgn THEN Tail(s) ELSE s)
    IN IF body = <<"n", "a", "n">> THEN [ok |-> TRUE, v |-> NaN]
       ELSE IF body \in {<<"i", "n", "f">>, <<"i", "n", "f", "i", "n", "i", "t", "y">>}
       THEN [ok |-> TRUE, v |-> Inf(neg)]
       ELSE ParseDecimal(neg, body)

\* f"{x:.2f}": two fractional digits, ties to even, "-" kept for a negative
\* value that rounds to zero.
Fmt2f(x) ==
    IF x.k = "nan" THEN <<"n", "a", "n">>
    ELSE IF x.k = "inf" THEN (IF x.neg THEN <<"-">> ELSE <<>>) \o <<"i", "n", "f">>
    ELSE LET q == x.m \div 10
             r == x.m % 10
             cents == IF r > 5 \/ (r = 5 /\ q % 2 = 1) THEN q + 1 ELSE q
             frac == cents % 100
         IN (IF x.neg THEN <<"-">> ELSE <<>>)
            \o NatStr(cents \div 100) \o <<".">>
            \o <<DigitChars[(frac \div 10) + 1], DigitChars[(frac % 10) + 1]>>

\* ------------------------------------------------------------------- csv

\* None, where a Python value is absent
PyNone == <<"None">>

QUOTE == "\""

\* csv.writer, QUOTE_MINIMAL: a field holding the delimiter, the quote
\* character or a line-terminator character is quoted, quotes doubled.
EncodeField(s) ==
    IF \E i \in 1..Len(s) : s[i] \in {",", QUOTE, "\r", "\n"}
    THEN <<QUOTE>> \o replace(s, QUOTE, <<QUOTE, QUOTE>>) \o <<QUOTE>>
    ELSE s

\* writer.writerow(fields), without the line terminator
RECURSIVE JoinRow(_)
JoinRow(fields) ==
    IF fields = <<>> THEN <<>>
    ELSE IF Len(fields) = 1 THEN EncodeField(fields[1])
    ELSE EncodeField(fields[1]) \o <<",">> \o JoinRow(Tail(fields))

\* csv.reader on one line: the parser's states are "start" (START_FIELD),
\* "field" (IN_FIELD), "quoted" (IN_QUOTED_FIELD), "quote" (QUOTE_IN_QUOTED_FIELD).
RECURSIVE ParseLine(_, _, _, _, _)
ParseLine(line, i, st, cur, fields) ==
    IF i > Len(line) THEN
        (IF line = <<>> THEN <<>> ELSE Append(fields, cur))
    ELSE LET c == line[i] IN
        IF st = "start" THEN
            IF c = QUOTE THEN ParseLine(line, i + 1, "quoted", <<>>, fields)
            ELSE IF c = "," THEN ParseLine(line, i + 1, "start", <<>>, Append(fields, <<>>))
            ELSE ParseLine(line, i + 1, "field", <<c>>, fields)
        ELSE IF st = "field" THEN
            IF c = "," THEN ParseLine(line, i + 1, "start", <<>>, Append(fields, cur))
            ELSE ParseLine(line, i + 1, "field", Append(cur, c), fields)
        ELSE IF st = "quoted" THEN
            IF c = QUOTE THEN ParseLine(line, i + 1, "quote", cur, fields)
            ELSE ParseLine(line, i + 1, "quoted", Append(cur, c), fields)
        ELSE
            IF c = QUOTE THEN ParseLine(line, i + 1, "quoted", Append(cur, c), fields)
            ELSE IF c = "," THEN ParseLine(line, i + 1, "start", <<>>, Append(fields, cur))
            ELSE ParseLine(line, i + 1, "field", Append(cur, c), fields)

ReadRow(line) == ParseLine(line, 1, "start", <<>>, <<>>)

\* The four fixed column names
FieldNames ==
    << <<"d", "a", "t", "e">>,
       <<"c", "a", "t", "e", "g", "o", "r", "y">>,
       <<"d", "e", "s", "c", "r", "i", "p", "t", "i", "o", "n">>,
       <<"a", "m", "o", "u", "n", "t">> >>

\* writer.writeheader()
HeaderLine == JoinRow(FieldNames)

\* csv.DictReader: r[key] of a row under the header's field names.
\* has = FALSE is KeyError; a short row gives None for the missing columns.
RowGet(names, row, key) ==
    IF ~Contains(names, key) \/ row = <<>> THEN [has |-> FALSE, v |-> PyNone]
    ELSE LET p == CHOOSE i \in 1..Len(names) :
                      names[i] = key /\ \A j \in (i + 1)..Len(names) : names[j] # key
         IN [has |-> TRUE, v |-> IF p <= Len(row) THEN row[p] ELSE PyNone]

\* ---------------------------------------------------------------- ledger

\* class Expense
Expense(date, category, description, amount) ==
    [date |-> date, category |-> category, description |-> description, amount |-> amount]

\* Expense.to_dict, as the list of its values in column order
to_dict(exp) == <<exp.date, exp.category, exp.description, Fmt2f(exp.amount)>>

\* The backing file: absent, or its lines (line terminators left out).
NoFile == [exists |-> FALSE, lines |-> <<>>]
FileOf(lines) == [exists |-> TRUE, lines |-> lines]

\* DictWriter.writerow: None is written as the empty field
WriteRow(d) == JoinRow([i \in 1..Len(d) |-> IF d[i] = PyNone THEN <<>> ELSE d[i]])

\* What save_expenses hands to the writer: the header, then one row per record
SaveLines(exps) == <<HeaderLine>> \o [i \in 1..Len(exps) |-> WriteRow(to_dict(exps[i]))]

\* save_expenses with the file opened in append mode
save_expenses_append(f, exps) == FileOf(f.lines \o SaveLines(exps))

\* ExpenseTracker.save_expenses on the current file f: open(..., "w")
\* truncates f, the lines are written and the file is closed.
save_expenses(f, exps) == FileOf(SaveLines(exps))

\* One row of the list comprehension of load_expenses: ok = FALSE when the
\* row raises (KeyError, or float() on None or on a text it rejects).
LoadRow(names, row) ==
    LET d == RowGet(names, row, FieldNames[1])
        c == RowGet(names, row, FieldNames[2])
        s == RowGet(names, row, FieldNames[3])
        a == RowGet(names, row, FieldNames[4])
        x == IF a.has /\ a.v # PyNone THEN float(a.v) ELSE [ok |-> FALSE, v |-> NaN]
    IN [ok |-> d.has /\ c.has /\ s.has /\ a.has /\ x.ok,
        exp |-> Expense(d.v, c.v, s.v, x.v)]

\* load_expenses that opens the file for update and so creates a missing one
load_expenses_touch(f) ==
    [ok |-> TRUE, expenses |-> <<>>, file |-> IF f.exists THEN f ELSE FileOf(<<>>)]

\* ExpenseTracker.load_expenses on file f with the constructor's empty
\* list: ok = FALSE when an exception leaves the constructor.
load_expenses(f) ==
    IF ~f.exists THEN [ok |-> TRUE, expenses |-> <<>>, file |-> f]
    ELSE IF f.lines = <<>> THEN [ok |-> TRUE, expenses |-> <<>>, file |-> f]
    ELSE LET names == ReadRow(f.lines[1])
             data == SelectSeq(Tail(f.lines), LAMBDA l : l # <<>>)
             rows == [i \in 1..Len(data) |-> LoadRow(names, ReadRow(data[i]))]
         IN IF \A i \in 1..Len(rows) : rows[i].ok
            THEN [ok |-> TRUE, expenses |-> [i \in 1..Len(rows) |-> rows[i].exp], file |-> f]
            ELSE [ok |-> FALSE, expenses |-> <<>>, file |-> f]

\* add_expense that inserts at the front
add_expense_front(f, exps, exp) ==
    LET e2 == <<exp>> \o exps
    IN [expenses |-> e2, file |-> save_expenses(f, e2), saved |-> TRUE]

\* add_expense that reads the file again before it appends
add_expense_reload(f, exps, exp) ==
    LET e2 == Append(load_expenses(f).expenses, exp)
    IN [expenses |-> e2, file |-> save_expenses(f, e2), saved |-> TRUE]

\* ExpenseTracker.add_expense
add_expense(f, exps, exp) ==
    LET e2 == Append(exps, exp)
    IN [expenses |-> e2, file |-> save_expenses(f, e2), saved |-> TRUE]

\* del self.expenses[-index]: counts from the end
DelItemFromEnd(exps, index) ==
    SubSeq(exps, 1, Len(exps) - index) \o SubSeq(exps, Len(exps) - index + 2, Len(exps))

\* del self.expenses[index - 1]
DelItem(exps, index) == SubSeq(exps, 1, index - 1) \o SubSeq(exps, index + 1, Len(exps))

\* delete_entry whose guard lets position 0 through: del self.expenses[-1]
delete_entry_zero(f, exps, index) ==
    IF index < 0 \/ index > Len(exps) \/ exps = <<>>
    THEN [ret |-> FALSE, expenses |-> exps, file |-> f, saved |-> FALSE]
    ELSE LET e2 == DelItem(exps, IF index = 0 THEN Len(exps) ELSE index)
         IN [ret |-> TRUE, expenses |-> e2, file |-> save_expenses(f, e2), saved |-> TRUE]

\* ExpenseTracker.delete_entry
delete_entry(f, exps, index) ==
    IF index < 1 \/ index > Len(exps)
    THEN [ret |-> FALSE, expenses |-> exps, file |-> f, saved |-> FALSE]
    ELSE LET e2 == DelItem(exps, index)
         IN [ret |-> TRUE, expenses |-> e2, file |-> save_expenses(f, e2), saved |-> TRUE]

\* The last position of c in s, 0 when absent
LastIndexOf(s, c) ==
    IF Contains(s, c) THEN CHOOSE i \in 1..Len(s) : s[i] = c /\ \A j \in (i + 1)..Len(s) : s[j] # c
    ELSE 0

\* parse_amount that keeps the last comma as the decimal mark and drops the
\* commas before it
parse_amount_lastcomma(s0) ==
    IF s0 = PyNone THEN [ok |-> FALSE, v |-> NaN]
    ELSE LET s1 == strip(s0)
             s2 == replace(replace(replace(s1, EURO, <<>>), " ", <<>>), NBSP, <<>>)
             np == replace(s2, ".", <<>>)
             k == LastIndexOf(np, ",")
             s3 == IF Contains(s2, ".") /\ Contains(s2, ",")
                   THEN replace(SubSeq(np, 1, k - 1), ",", <<>>) \o <<".">>
                        \o SubSeq(np, k + 1, Len(np))
                   ELSE IF Contains(s2, ",") /\ ~Contains(s2, ".")
                        THEN replace(s2, ",", <<".">>)
                        ELSE s2
         IN IF s2 = <<>> THEN [ok |-> FALSE, v |-> NaN] ELSE float(s3)

\* parse_amount that takes an empty amount as 0.0
parse_amount_emptyzero(s0) ==
    IF s0 = PyNone THEN [ok |-> FALSE, v |-> NaN]
    ELSE LET s1 == strip(s0)
             s2 == replace(replace(replace(s1, EURO, <<>>), " ", <<>>), NBSP, <<>>)
             s3 == IF Contains(s2, ".") /\ Contains(s2, ",")
                   THEN replace(replace(s2, ".", <<>>), ",", <<".">>)
                   ELSE IF Contains(s2, ",") /\ ~Contains(s2, ".")
                        THEN replace(s2, ",", <<".">>)
                        ELSE s2
         IN IF s2 = <<>> THEN [ok |-> TRUE, v |-> Fin(FALSE, 0)] ELSE float(s3)

\* parse_amount reading several commas as thousands separators
parse_amount_commathousands(s0) ==
    IF s0 = PyNone THEN [ok |-> FALSE, v |-> NaN]
    ELSE LET s1 == strip(s0)
             s2 == replace(replace(replace(s1, EURO, <<>>), " ", <<>>), NBSP, <<>>)
             several == Len(SelectSeq(s2, LAMBDA c : c = ",")) >= 2
             s3 == IF Contains(s2, ".") /\ Contains(s2, ",")
                   THEN replace(replace(s2, ".", <<>>), ",", <<".">>)
                   ELSE IF Contains(s2, ",") /\ ~Contains(s2, ".")
                        THEN replace(s2, ",", IF several THEN <<>> ELSE <<".">>)
                        ELSE s2
         IN IF s2 = <<>> THEN [ok |-> FALSE, v |-> NaN] ELSE float(s3)

\* ExpenseTracker.parse_amount: ok = FALSE stands for the ValueError raised
parse_amount(s0) ==
    IF s0 = PyNone THEN [ok |-> FALSE, v |-> NaN]
    ELSE LET s1 == strip(s0)
             s2 == replace(replace(replace(s1, EURO, <<>>), " ", <<>>), NBSP, <<>>)
             s3 == IF Contains(s2, ".") /\ Contains(s2, ",")
                   THEN replace(replace(s2, ".", <<>>), ",", <<".">>)
                   ELSE IF Contains(s2, ",") /\ ~Contains(s2, ".")
                        THEN replace(s2, ",", <<".">>)
                        ELSE s2
         IN IF s2 = <<>> THEN [ok |-> FALSE, v |-> NaN] ELSE float(s3)

\* The "," option of the format specification: the integer digits in
\* groups of three, counted from the right
RECURSIVE Group3(_)
Group3(d) ==
    IF Len(d) <= 3 THEN d
    ELSE Group3(SubSeq(d, 1, Len(d) - 3)) \o <<",">> \o SubSeq(d, Len(d) - 2, Len(d))

\* f"{x:,.2f}": nan and inf have no digits to group
FmtComma2f(x) ==
    LET t == Fmt2f(x)
        neg == t[1] = "-"
        u == IF neg THEN Tail(t) ELSE t
        dot == IndexOf(u, ".")
    IN IF ~isfinite(x) THEN t
       ELSE (IF neg THEN <<"-">> ELSE <<>>)
            \o Group3(SubSeq(u, 1, dot - 1)) \o SubSeq(u, dot, Len(u))

\* format_amount without the exchange of the two separators
format_amount_noswap(amount) == FmtComma2f(amount) \o <<EURO>>

\* format_amount without the grouping option
format_amount_nogroup(amount) == replace(Fmt2f(amount), ".", <<",">>) \o <<EURO>>

\* ExpenseTracker.format_amount
format_amount(amount) ==
    LET s == FmtComma2f(amount)
    IN replace(replace(replace(s, ",", <<"X">>), ".", <<",">>), "X", <<".">>) \o <<EURO>>

\* ------------------------------------------------------ total and search

\* x + y on floats: nan absorbs, inf + -inf is nan, a zero sum is -0.0 only
\* when both terms are; a magnitude at MaxMag stays there
FAdd(x, y) ==
    IF isnan(x) \/ isnan(y) THEN NaN
    ELSE IF x.k = "inf" THEN (IF y.k = "inf" /\ x.neg # y.neg THEN NaN ELSE x)
    ELSE IF y.k = "inf" THEN y
    ELSE IF x.m >= MaxMag THEN x
    ELSE IF y.m >= MaxMag THEN y
    ELSE LET s == (IF x.neg THEN -x.m ELSE x.m) + (IF y.neg THEN -y.m ELSE y.m)
         IN IF s = 0 THEN Fin(x.neg /\ y.neg, 0)
            ELSE IF s < 0 THEN Fin(TRUE, -s)
            ELSE Fin(FALSE, s)

\* ExpenseTracker.get_total: sum() starts from the integer 0
RECURSIVE get_total(_)
get_total(exps) ==
    IF exps = <<>> THEN Fin(FALSE, 0)
    ELSE FAdd(get_total(SubSeq(exps, 1, Len(exps) - 1)), exps[Len(exps)].amount)

\* str.ljust(w) and str.rjust(w): the format specifications :<w and :>w
ljust(s, w) == s \o [i \in 1..(IF w > Len(s) THEN w - Len(s) ELSE 0) |-> " "]
rjust(s, w) == [i \in 1..(IF w > Len(s) THEN w - Len(s) ELSE 0) |-> " "] \o s

\* Expense.__str__
Expense_str(exp) ==
    exp.date \o <<" ", "|", " ">> \o ljust(exp.category, 15) \o <<" ", "|", " ">>
    \o ljust(exp.description, 30) \o <<" ", "|", " ", "$">> \o rjust(Fmt2f(exp.amount), 8)

\* search_by_category that compares the category as typed
search_by_category_exact(exps, category) ==
    LET results == SelectSeq(exps, LAMBDA exp : exp.category = category)
    IN [results |-> results,
        lines |-> [i \in 1..Len(results) |-> Expense_str(results[i])]
                  \o (IF results = <<>> THEN << <<"No matching expenses found.">> >> ELSE <<>>)]

\* ExpenseTracker.search_by_category: the records reported and the lines
\* printed after the heading (a fixed message is one token)
search_by_category(exps, category) ==
    LET results == SelectSeq(exps, LAMBDA exp : lower(exp.category) = lower(category))
    IN [results |-> results,
        lines |-> [i \in 1..Len(results) |-> Expense_str(results[i])]
                  \o (IF results = <<>> THEN << <<"No matching expenses found.">> >> ELSE <<>>)]

\* -------------------------------------------------------------- summary

\* dict.get(k, default) and d[k] = v on a dict kept as its items in
\* insertion order
DictGet(d, k, default) ==
    IF \E i \in 1..Len(d) : d[i].k = k THEN d[CHOOSE i \in 1..Len(d) : d[i].k = k].v ELSE default
DictSet(d, k, v) ==
    IF \E i \in 1..Len(d) : d[i].k = k THEN [i \in 1..Len(d) |-> IF d[i].k = k THEN [k |-> k, v |-> v] ELSE d[i]]
    ELSE Append(d, [k |-> k, v |-> v])

\* plt.pie was not called
NoSink == [called |-> FALSE, labels |-> <<>>, totals |-> <<>>]

\* v > 0 on floats
Positive(v) == v.k # "nan" /\ ~v.neg /\ (v.k = "inf" \/ v.m > 0)

\* The loop of plot_summary over the first n records: category_totals
RECURSIVE category_totals(_, _)
category_totals(exps, n) ==
    IF n = 0 THEN <<>>
    ELSE LET d == category_totals(exps, n - 1)
             amt == exps[n].amount
         IN IF isnan(amt) THEN d
            ELSE DictSet(d, exps[n].category, FAdd(DictGet(d, exps[n].category, Fin(FALSE, 0)), amt))

\* The same loop with the categories folded to lower case
RECURSIVE category_totals_lower(_, _)
category_totals_lower(exps, n) ==
    IF n = 0 THEN <<>>
    ELSE LET d == category_totals_lower(exps, n - 1)
             amt == exps[n].amount
             c == lower(exps[n].category)
         IN IF isnan(amt) THEN d
            ELSE DictSet(d, c, FAdd(DictGet(d, c, Fin(FALSE, 0)), amt))

\* The rest of plot_summary, from the sums on
Chart(exps, totals, filtered) ==
    IF exps = <<>>
    THEN [lines |-> << <<"No data to plot.">> >>, totals |-> <<>>, sink |-> NoSink]
    ELSE IF filtered = <<>>
    THEN [lines |-> << <<"Keine positiven Betraege zum Darstellen.">> >>,
          totals |-> totals, sink |-> NoSink]
    ELSE [lines |-> <<>>, totals |-> totals,
          sink |-> [called |-> TRUE,
                    labels |-> [i \in 1..Len(filtered) |-> filtered[i].k],
                    totals |-> [i \in 1..Len(filtered) |-> filtered[i].v]]]

\* plot_summary that charts whatever it summed, without the filter and
\* without the notice for an empty selection
plot_summary_nofilter(exps) ==
    LET totals == category_totals(exps, Len(exps))
    IN IF exps = <<>>
       THEN [lines |-> <<>>, totals |-> <<>>,
             sink |-> [called |-> TRUE, labels |-> <<>>, totals |-> <<>>]]
       ELSE [lines |-> <<>>, totals |-> totals,
             sink |-> [called |-> TRUE,
                       labels |-> [i \in 1..Len(totals) |-> totals[i].k],
                       totals |-> [i \in 1..Len(totals) |-> totals[i].v]]]

\* plot_summary that groups by the lower-case category
plot_summary_lower(exps) ==
    LET totals == category_totals_lower(exps, Len(exps))
    IN Chart(exps, totals, SelectSeq(totals, LAMBDA e : ~isnan(e.v) /\ Positive(e.v)))

\* ExpenseTracker.plot_summary: the notice printed, category_totals and
\* what plt.pie receives
plot_summary(exps) ==
    LET totals == category_totals(exps, Len(exps))
    IN Chart(exps, totals, SelectSeq(totals, LAMBDA e : ~isnan(e.v) /\ Positive(e.v)))

\* ---------------------------------------------------------------- table

\* The column headings and the label of the totals row
Headers ==
    [nr |-> <<"N", "r", ".">>,
     date |-> <<"D", "a", "t", "u", "m">>,
     cat |-> <<"K", "a", "t", "e", "g", "o", "r", "i", "e">>,
     desc |-> <<"B", "e", "s", "c", "h", "r", "e", "i", "b", "u", "n", "g">>,
     amt |-> <<"B", "e", "t", "r", "a", "g">>]
TotalLabel == <<"G", "e", "s", "a", "m", "t", "e", "i", "n", "a", "h", "m", "e", "n", ":">>

\* max(a, b) and max() over the lengths of a list of texts
Max2(a, b) == IF a >= b THEN a ELSE b
RECURSIVE MaxLenOf(_)
MaxLenOf(texts) ==
    IF texts = <<>> THEN 0 ELSE Max2(Len(Head(texts)), MaxLenOf(Tail(texts)))

\* The inter-column text " | " and a rule of n dashes
Bar == <<" ", "|", " ">>
Rule(n) == [i \in 1..n |-> "-"]

\* The column widths view_expenses computes for a non-empty ledger
Widths(exps) ==
    LET all_amounts == [i \in 1..Len(exps) |-> format_amount(exps[i].amount)]
                       \o <<format_amount(get_total(exps))>>
    IN [nr |-> Max2(Len(Headers.nr), Len(NatStr(Len(exps)))),
        date |-> Max2(10, MaxLenOf([i \in 1..Len(exps) |-> exps[i].date])),
        cat |-> Max2(Len(Headers.cat), MaxLenOf([i \in 1..Len(exps) |-> exps[i].category])),
        desc |-> Max2(Len(Headers.desc),
                      MaxLenOf([i \in 1..Len(exps) |-> exps[i].description])),
        amt |-> Max2(Len(Headers.amt), MaxLenOf(all_amounts))]

\* The lines view_expenses prints with the widths w, the rows numbered
\* from start: a blank line, the heading, a rule, the rows, a rule, the
\* totals row
Table(exps, start, w) ==
    IF exps = <<>>
    THEN [widths |-> w, total_width |-> 0, lines |-> << <<"Noch keine Ausgaben erfasst.">> >>]
    ELSE LET total_width == w.nr + 3 + w.date + 3 + w.cat + 3 + w.desc + 3 + w.amt
             header == ljust(Headers.nr, w.nr) \o Bar \o ljust(Headers.date, w.date) \o Bar
                       \o ljust(Headers.cat, w.cat) \o Bar
                       \o ljust(Headers.desc, w.desc) \o Bar \o rjust(Headers.amt, w.amt)
             row(i) == ljust(NatStr(start + i - 1), w.nr) \o Bar
                       \o ljust(exps[i].date, w.date) \o Bar
                       \o ljust(exps[i].category, w.cat) \o Bar
                       \o ljust(exps[i].description, w.desc) \o Bar
                       \o rjust(format_amount(exps[i].amount), w.amt)
             total_label_width == w.nr + 3 + w.date + 3 + w.cat + 3 + w.desc
         IN [widths |-> w, total_width |-> total_width,
             lines |-> << <<>>, header, Rule(total_width) >>
                       \o [i \in 1..Len(exps) |-> row(i)]
                       \o << Rule(total_width),
                              ljust(TotalLabel, total_label_width) \o <<" ">>
                              \o rjust(format_amount(get_total(exps)), w.amt) >>]

\* view_expenses that numbers the rows from 0
view_expenses_fromzero(exps) ==
    Table(exps, 0, IF exps = <<>> THEN [nr |-> 0, date |-> 0, cat |-> 0, desc |-> 0, amt |-> 0] ELSE Widths(exps))

\* view_expenses with the description column as wide as its heading
view_expenses_narrow(exps) ==
    Table(exps, 1, IF exps = <<>> THEN [nr |-> 0, date |-> 0, cat |-> 0, desc |-> 0, amt |-> 0]
                   ELSE [Widths(exps) EXCEPT !.desc = Len(Headers.desc)])

\* ExpenseTracker.view_expenses
view_expenses(exps) ==
    Table(exps, 1, IF exps = <<>> THEN [nr |-> 0, date |-> 0, cat |-> 0, desc |-> 0, amt |-> 0] ELSE Widths(exps))

\* ------------------------------------------------------------------ menu

\* int(s) for the two-digit fields of a date; 0 when s is no such field
DateField(s) ==
    IF Len(s) \in {1, 2} /\ AllDigits(s) THEN NatOf(s)
    ELSE IF Len(s) = 2 /\ s[1] = " " /\ IsDigit(s[2]) THEN DigitVal(s[2])
    ELSE 0

IsLeap(y) == (y % 4 = 0 /\ y % 100 # 0) \/ y % 400 = 0

DaysIn(y, m) ==
    IF m = 2 THEN (IF IsLeap(y) THEN 29 ELSE 28)
    ELSE IF m \in {4, 6, 9, 11} THEN 30 ELSE 31

\* datetime.datetime.strptime(s, "%Y-%m-%d") succeeds: four digits, a month
\* 1..12 and a day of that month in one or two digits, nothing left over.
strptime_ok(s) ==
    LET d1 == IndexOf(s, "-")
        rest == SubSeq(s, d1 + 1, Len(s))
        d2 == IndexOf(rest, "-")
        ys == SubSeq(s, 1, d1 - 1)
        ms == SubSeq(rest, 1, d2 - 1)
        ds == SubSeq(rest, d2 + 1, Len(rest))
    IN /\ d1 > 0 /\ d2 > 0
       /\ Len(ys) = 4 /\ AllDigits(ys) /\ NatOf(ys) >= 1
       /\ AllDigits(ms) /\ DateField(ms) \in 1..12
       /\ DateField(ds) \in 1..DaysIn(NatOf(ys), DateField(ms))

\* The keys of TEXTS that the add and delete branches look up
TEXTS ==
    {"enter_date", "invalid_date", "enter_category", "enter_description",
     "enter_amount", "invalid_amount", "saved", "press_enter", "delete_prompt",
     "admin_pw_prompt", "pw_wrong", "delete_success", "delete_invalid",
     "select_sign", "income_label", "expense_label"}

\* What one pass through a branch of main_menu leaves behind: the process
\* status ("ok": back at the menu, "raised": an exception left main_menu),
\* the ledger, the file, the message printed and whether persist ran.
Outcome(status, exps, f, msg, saved) ==
    [status |-> status, expenses |-> exps, file |-> f, msg |-> msg, saved |-> saved]

\* The add branch with amount left as parsed under "+" (no abs)
AddBranch_keepsign(f, exps, in) ==
    LET parsed == parse_amount(strip(in.amount))
        typed == strip(in.sign)
        valid == typed \in {<<"+">>, <<"-">>}
        amount == IF typed = <<"-">> THEN negabs(parsed.v) ELSE parsed.v
        a == add_expense(f, exps, Expense(strip(in.date), strip(in.category),
                                          strip(in.description), amount))
    IN IF ~strptime_ok(strip(in.date)) THEN [status |-> "ok", expenses |-> exps, file |-> f, msg |-> "invalid_date", saved |-> FALSE]
       ELSE IF ~parsed.ok THEN [status |-> "ok", expenses |-> exps, file |-> f, msg |-> "invalid_amount", saved |-> FALSE]
       ELSE IF ~valid THEN [status |-> "raised", expenses |-> exps, file |-> f, msg |-> "KeyError", saved |-> FALSE]
       ELSE [status |-> "ok", expenses |-> a.expenses, file |-> a.file, msg |-> "saved", saved |-> a.saved]

\* The add branch without the continue after an invalid date
AddBranch_nocontinue(f, exps, in) ==
    LET parsed == parse_amount(strip(in.amount))
        typed == strip(in.sign)
        valid == typed \in {<<"+">>, <<"-">>}
        amount == IF typed = <<"-">> THEN negabs(parsed.v) ELSE abs(parsed.v)
        a == add_expense(f, exps, Expense(strip(in.date), strip(in.category),
                                          strip(in.description), amount))
    IN IF ~parsed.ok THEN [status |-> "ok", expenses |-> exps, file |-> f, msg |-> "invalid_amount", saved |-> FALSE]
       ELSE IF ~valid THEN [status |-> "raised", expenses |-> exps, file |-> f, msg |-> "KeyError", saved |-> FALSE]
       ELSE [status |-> "ok", expenses |-> a.expenses, file |-> a.file,
             msg |-> IF strptime_ok(strip(in.date)) THEN "saved" ELSE "invalid_date",
             saved |-> a.saved]

\* main_menu, choice "1": the inputs are the five lines typed.  A polarity
\* token other than "+" and "-" first prints TEXTS['sign_invalid'][lang],
\* which raises KeyError when TEXTS has no such key, and then stands for "-".
AddBranch(f, exps, in) ==
    LET date == strip(in.date)
        category == strip(in.category)
        description == strip(in.description)
        amount_input == strip(in.amount)
        parsed == parse_amount(amount_input)
        typed == strip(in.sign)
        valid == typed \in {<<"+">>, <<"-">>}
        sign == IF valid THEN typed ELSE <<"-">>
        amount == IF sign = <<"-">> THEN negabs(parsed.v) ELSE abs(parsed.v)
        a == add_expense(f, exps, Expense(date, category, description, amount))
    IN IF ~strptime_ok(date) THEN Outcome("ok", exps, f, "invalid_date", FALSE)
       ELSE IF ~parsed.ok THEN Outcome("ok", exps, f, "invalid_amount", FALSE)
       ELSE IF ~valid /\ "sign_invalid" \notin TEXTS
            THEN Outcome("raised", exps, f, "KeyError", FALSE)
            ELSE Outcome("ok", a.expenses, a.file, "saved", a.saved)

\* The fixed admin secret of the delete branch
AdminSecret == <<"6", "5", "4", "3", "2", "1", "!">>

\* The delete branch without the comparison of the secret
DeleteBranch_nopw(f, exps, in) ==
    LET num_input == strip(in.num)
    IN IF ~(num_input # <<>> /\ AllDigits(num_input))
       THEN [status |-> "ok", expenses |-> exps, file |-> f, msg |-> "delete_invalid", saved |-> FALSE]
       ELSE LET d == delete_entry(f, exps, NatOf(num_input))
            IN [status |-> "ok", expenses |-> d.expenses, file |-> d.file,
                msg |-> IF d.ret THEN "delete_success" ELSE "delete_invalid",
                saved |-> d.saved]

\* main_menu, choice "7": the entry number and the secret typed
DeleteBranch(f, exps, in) ==
    LET num_input == strip(in.num)
    IN IF ~(num_input # <<>> /\ AllDigits(num_input))
       THEN Outcome("ok", exps, f, "delete_invalid", FALSE)
       ELSE IF in.pw # AdminSecret THEN Outcome("ok", exps, f, "pw_wrong", FALSE)
       ELSE LET d == delete_entry(f, exps, NatOf(num_input))
            IN Outcome("ok", d.expenses, d.file,
                       IF d.ret THEN "delete_success" ELSE "delete_invalid", d.saved)

\* ---------------------------------------------------------------- inputs

\* The add-entry inputs and stored files the model draws from.
DateOk == <<"2", "0", "2", "4", "-", "0", "1", "-", "1", "5">>
DateBad == <<"2", "0", "2", "4", "-", "0", "2", "-", "3", "0">>
Food == <<"F", "o", "o", "d">>
food == <<"f", "o", "o", "d">>
DescPlain == <<"x">>
DescComma == <<"a", ",", QUOTE, "b">>
Plus == <<"+">>
Minus == <<"-">>

Typed(date, category, description, amount, sign) ==
    [date |-> date, category |-> category, description |-> description,
     amount |-> amount, sign |-> sign]

\* Entries typed into the add branch that the ledger-level specification
\* appends: the records are what the branch builds from them.
LedgerInputs ==
    {Typed(DateOk, Food, DescComma, <<"1", ",", "5">>, Minus),
     Typed(DateOk, food, DescPlain, <<"1", ",", "2", "3", "4">>, Plus),
     Typed(DateOk, Food, DescPlain, <<"n", "a", "n">>, Plus),
     Typed(DateOk, Food, DescPlain, <<"0">>, Minus)}

EntryRecord(in) ==
    LET o == AddBranch(NoFile, <<>>, in) IN o.expenses[1]

Records == {EntryRecord(in) : in \in LedgerInputs}

\* Entries typed in the menu-level specification: a magnitude typed without
\* and with a minus sign, "nan" and a text that is no number, under valid
\* and invalid polarity tokens, and one entry with an invalid date
MenuInputs ==
    {Typed(DateOk, Food, DescPlain, <<"1", ",", "5">>, s) : s \in {Plus, <<"x">>}}
    \cup {Typed(DateOk, Food, DescPlain, <<"-", "1", ",", "5">>, s) : s \in {Plus, Minus}}
    \cup {Typed(DateOk, Food, DescPlain, a, Plus) : a \in {<<"n", "a", "n">>, <<"a", "b", "c">>}}
    \cup {Typed(DateBad, Food, DescPlain, <<"1", ",", "5">>, Plus)}

\* Entry numbers and secrets typed in the delete branch
DeleteInputs ==
    {[num |-> n, pw |-> AdminSecret] : n \in {<<"0">>, <<"1">>, <<"2">>, <<"a">>}}
    \cup {[num |-> <<"1">>, pw |-> <<"1", "2", "3", "4">>]}

RowText(amount) ==
    DateOk \o <<",">> \o Food \o <<",">> \o DescPlain \o <<",">> \o amount

\* Backing files found at start-up: none, one written by hand with a
\* one-digit amount, one with a text amount, one with a row cut short, one
\* holding "nan", and an empty one.
FileGood == FileOf(<<HeaderLine, RowText(<<"1", ".", "5">>)>>)
FileText == FileOf(<<HeaderLine, RowText(<<"1", ".", "5">>), RowText(<<"a", "b", "c">>)>>)
FileShort == FileOf(<<HeaderLine, DateOk \o <<",">> \o Food \o <<",">> \o DescPlain>>)
FileNan == FileOf(<<HeaderLine, RowText(<<"1", ".", "5">>), RowText(<<"n", "a", "n">>)>>)
FileEmpty == FileOf(<<>>)

InitialFiles == {NoFile, FileGood, FileText, FileShort, FileNan, FileEmpty}

\* At most this many records are loaded or appended by one tracker object.
MaxHist == 3

\* ----------------------------------------------------------------- state

VARIABLES
    file,       \* the backing file expenses.csv
    tracker,    \* "none": no process; "ok": tracker built, at the menu;
                \* "raised": an exception ended the process; "killed": crashed
    expenses,   \* self.expenses
    hist,       \* the records this tracker loaded, then those appended, in order
    adds,       \* the number of add_expense calls on this tracker
    last,       \* the last call: its arguments, result and the state before it
    pc,         \* "idle", or "saving" inside a stepwise save_expenses
    buf,        \* lines written to the open file object, not yet on disk
    peer,       \* a second tracker process on the same backing file
    codec,      \* one call of the amount codec: its argument and its result
    screen,     \* what the last view, search or summary printed or charted
    login       \* the entry point: the credential store and the login attempts

vars == <<file, tracker, expenses, hist, adds, last, pc, buf, peer, codec, screen, login>>

\* The output of one read-only menu operation op on the ledger exps with
\* argument arg, as the operation's model returns it.  A later call that
\* prints nothing (the constructor, add_expense, delete_entry) leaves the
\* empty output.
Screen(op, exps, arg, out) == [op |-> op, of |-> exps, arg |-> arg, out |-> out]
NoScreen == Screen("none", <<>>, <<>>, <<>>)

\* The entry point before load_users: no users, no attempt made
NoLogin ==
    [pc |-> "start", ufile |-> NoFile, users |-> <<>>, attempt |-> 0, fails |-> 0,
     username |-> <<>>, password |-> <<>>, user |-> PyNone]

\* The second process before it starts: its state, self.expenses, the
\* records it loaded then appended, and the number of its add_expense calls
NoPeer == [tracker |-> "none", expenses |-> <<>>, hist |-> <<>>, adds |-> 0]

\* A codec call not yet made on the text s and the amount x
CodecIn(s, x) == [fn |-> "input", s |-> s, x |-> x, ok |-> FALSE, v |-> NaN, out |-> <<>>]
NoCodec == CodecIn(<<>>, Fin(FALSE, 0))

NoExpense == Expense(<<>>, <<>>, <<>>, Fin(FALSE, 0))
NoTyped == Typed(<<>>, <<>>, <<>>, <<>>, <<>>)

Call(op, k, r, in, ret, saved, msg, pre, prefile) ==
    [op |-> op, k |-> k, r |-> r, in |-> in, ret |-> ret, saved |-> saved,
     msg |-> msg, pre |-> pre, prefile |-> prefile]

InitWith(files) ==
    /\ file \in files
    /\ tracker = "none"
    /\ expenses = <<>>
    /\ hist = <<>>
    /\ adds = 0
    /\ last = Call("init", 0, NoExpense, NoTyped, FALSE, FALSE, "", <<>>, file)
    /\ pc = "idle"
    /\ buf = <<>>
    /\ peer = NoPeer
    /\ codec = NoCodec
    /\ screen = NoScreen
    /\ login = NoLogin

Init == InitWith(InitialFiles)

\* tracker = ExpenseTracker(): the constructor and its load_expenses.  The
\* call remembers what the previous tracker held when its process ended
\* (pre), how many records it had appended (k) and whether it had only
\* appended to an empty ledger (ret).
Construct ==
    /\ tracker = "none"
    /\ LET l == load_expenses(file) IN
        /\ tracker' = IF l.ok THEN "ok" ELSE "raised"
        /\ expenses' = l.expenses
        /\ file' = l.file
        /\ hist' = l.expenses
        /\ adds' = 0
        /\ last' = Call("load", last.k, NoExpense, NoTyped,
                        last.op = "exit" /\ last.ret, FALSE, "", last.pre, file)
    /\ UNCHANGED <<pc, buf, peer, codec, login>>
    /\ screen' = NoScreen

\* tracker.add_expense(r)
AddExpense(r) ==
    /\ tracker = "ok" /\ pc = "idle"
    /\ Len(hist) < MaxHist
    /\ LET a == add_expense(file, expenses, r) IN
        /\ expenses' = a.expenses
        /\ file' = a.file
        /\ last' = Call("add", 0, r, NoTyped, TRUE, a.saved, "", expenses, file)
    /\ hist' = Append(hist, r)
    /\ adds' = adds + 1
    /\ UNCHANGED <<tracker, pc, buf, peer, codec, login>>
    /\ screen' = NoScreen

\* tracker.delete_entry(k)
DeleteEntry(k) ==
    /\ tracker = "ok" /\ pc = "idle"
    /\ LET d == delete_entry(file, expenses, k) IN
        /\ expenses' = d.expenses
        /\ file' = d.file
        /\ last' = Call("delete", k, NoExpense, NoTyped, d.ret, d.saved, "", expenses, file)
    /\ UNCHANGED <<tracker, hist, adds, pc, buf, peer, codec, login>>
    /\ screen' = NoScreen

\* The process ends (menu choice "6"); the tracker object is gone.
Exit ==
    /\ tracker = "ok" /\ pc = "idle"
    /\ tracker' = "none"
    /\ expenses' = <<>>
    /\ last' = Call("exit", adds, NoExpense, NoTyped,
                    hist = expenses /\ Len(expenses) = adds, FALSE, "", expenses, file)
    /\ UNCHANGED <<file, hist, adds, pc, buf, peer, codec, screen, login>>

Next ==
    \/ Construct
    \/ \E r \in Records : AddExpense(r)
    \/ \E k \in (0 - 1)..(MaxHist + 1) : DeleteEntry(k)
    \/ Exit

Spec == Init /\ [][Next]_vars

\* ------------------------------------------------------------ menu level

\* The files the menu-level specification starts from
MenuFiles == {NoFile, FileGood, FileText}

MenuInit == InitWith(MenuFiles)

\* main_menu, choice "1", from the prompt for the date to the return to the menu
Choice1(in) ==
    /\ tracker = "ok" /\ pc = "idle"
    /\ Len(hist) < MaxHist
    /\ LET o == AddBranch(file, expenses, in) IN
        /\ tracker' = o.status
        /\ expenses' = o.expenses
        /\ file' = o.file
        /\ hist' = IF o.saved THEN Append(hist, o.expenses[Len(o.expenses)]) ELSE hist
        /\ adds' = IF o.saved THEN adds + 1 ELSE adds
        /\ last' = Call("choice1", 0,
                        IF o.saved THEN o.expenses[Len(o.expenses)] ELSE NoExpense,
                        in, o.status = "ok", o.saved, o.msg, expenses, file)
    /\ UNCHANGED <<pc, buf, peer, codec, screen, login>>

\* main_menu, choice "7"
Choice7(in) ==
    /\ tracker = "ok" /\ pc = "idle"
    /\ LET o == DeleteBranch(file, expenses, in) IN
        /\ tracker' = o.status
        /\ expenses' = o.expenses
        /\ file' = o.file
        /\ last' = Call("choice7", 0, NoExpense, in, o.msg = "delete_success",
                        o.saved, o.msg, expenses, file)
    /\ UNCHANGED <<hist, adds, pc, buf, peer, codec, screen, login>>

MenuNext ==
    \/ Construct
    \/ \E in \in MenuInputs : Choice1(in)
    \/ \E in \in DeleteInputs : Choice7(in)
    \/ Exit

MenuSpec == MenuInit /\ [][MenuNext]_vars

\* ----------------------------------------------------- save, step by step

CrashFiles == {NoFile, FileGood}

CrashInit == InitWith(CrashFiles)

\* add_expense up to the open() of save_expenses: the record is appended and
\* the file is truncated.
OpenAdd(r) ==
    /\ tracker = "ok" /\ pc = "idle"
    /\ Len(hist) < MaxHist
    /\ expenses' = Append(expenses, r)
    /\ file' = FileOf(<<>>)
    /\ hist' = Append(hist, r)
    /\ adds' = adds + 1
    /\ last' = Call("add", 0, r, NoTyped, TRUE, FALSE, "", expenses, file)
    /\ pc' = "saving"
    /\ buf' = <<>>
    /\ UNCHANGED <<tracker, peer, codec, screen, login>>

\* delete_entry(k) for a position in range, up to the open() of save_expenses
OpenDelete(k) ==
    /\ tracker = "ok" /\ pc = "idle"
    /\ k \in 1..Len(expenses)
    /\ expenses' = DelItem(expenses, k)
    /\ file' = FileOf(<<>>)
    /\ last' = Call("delete", k, NoExpense, NoTyped, TRUE, FALSE, "", expenses, file)
    /\ pc' = "saving"
    /\ buf' = <<>>
    /\ UNCHANGED <<tracker, hist, adds, peer, codec, screen, login>>

\* writer.writeheader() or one writer.writerow(): the line goes to the file
\* object's buffer
SaveWrite ==
    /\ pc = "saving"
    /\ Len(file.lines) + Len(buf) < Len(SaveLines(expenses))
    /\ buf' = Append(buf, SaveLines(expenses)[Len(file.lines) + Len(buf) + 1])
    /\ UNCHANGED <<file, tracker, expenses, hist, adds, last, pc, peer, codec, screen, login>>

\* The file object's buffer is full and is written out
SaveFlush ==
    /\ pc = "saving"
    /\ buf # <<>>
    /\ file' = FileOf(file.lines \o buf)
    /\ buf' = <<>>
    /\ UNCHANGED <<tracker, expenses, hist, adds, last, pc, peer, codec, screen, login>>

\* The end of the with block: the buffer is written out and the file closed
SaveClose ==
    /\ pc = "saving"
    /\ Len(file.lines) + Len(buf) = Len(SaveLines(expenses))
    /\ file' = FileOf(file.lines \o buf)
    /\ buf' = <<>>
    /\ pc' = "idle"
    /\ last' = [last EXCEPT !.saved = TRUE]
    /\ UNCHANGED <<tracker, expenses, hist, adds, peer, codec, screen, login>>

\* The process stops inside save_expenses: what is in the buffer is lost
Crash ==
    /\ pc = "saving"
    /\ tracker' = "killed"
    /\ buf' = <<>>
    /\ UNCHANGED <<file, expenses, hist, adds, last, pc, peer, codec, screen, login>>

CrashNext ==
    \/ Construct
    \/ \E r \in Records : OpenAdd(r)
    \/ \E k \in 1..MaxHist : OpenDelete(k)
    \/ SaveWrite
    \/ SaveFlush
    \/ SaveClose
    \/ Crash

CrashSpec == CrashInit /\ [][CrashNext]_vars

\* ---------------------------------------------------------------- claims

\* ------------------------------------------------- two tracker processes

\* Two processes run the script on one backing file: the first is the
\* tracker of the variables above, the second is peer.  Each constructs its
\* tracker (loading the file as it is then) and appends records.
TwoFiles == {NoFile, FileGood}

TwoInit == InitWith(TwoFiles)

\* The records the two processes append
TwoRecords ==
    {EntryRecord(Typed(DateOk, Food, DescComma, <<"1", ",", "5">>, Minus)),
     EntryRecord(Typed(DateOk, food, DescPlain, <<"1", ",", "2", "3", "4">>, Plus))}

\* The second process: tracker = ExpenseTracker()
PeerConstruct ==
    /\ peer.tracker = "none"
    /\ LET l == load_expenses(file) IN
        /\ peer' = [tracker |-> IF l.ok THEN "ok" ELSE "raised",
                    expenses |-> l.expenses, hist |-> l.expenses, adds |-> 0]
        /\ file' = l.file
        /\ last' = Call("peer_load", 0, NoExpense, NoTyped, l.ok, FALSE, "",
                        peer.expenses, file)
    /\ UNCHANGED <<tracker, expenses, hist, adds, pc, buf, codec, screen, login>>

\* The second process: tracker.add_expense(r)
PeerAdd(r) ==
    /\ peer.tracker = "ok"
    /\ Len(peer.hist) < MaxHist
    /\ LET a == add_expense(file, peer.expenses, r) IN
        /\ peer' = [peer EXCEPT !.expenses = a.expenses,
                                !.hist = Append(peer.hist, r),
                                !.adds = peer.adds + 1]
        /\ file' = a.file
        /\ last' = Call("peer_add", 0, r, NoTyped, TRUE, a.saved, "",
                        peer.expenses, file)
    /\ UNCHANGED <<tracker, expenses, hist, adds, pc, buf, codec, screen, login>>

TwoNext ==
    \/ Construct
    \/ \E r \in TwoRecords : AddExpense(r)
    \/ PeerConstruct
    \/ \E r \in TwoRecords : PeerAdd(r)

TwoSpec == TwoInit /\ [][TwoNext]_vars

\* ------------------------------------------------------- the amount codec

\* The longest amount text drawn character by character
MaxText == 5

\* Every text of a digit and the two separators, up to MaxText characters
SeparatorTexts == UNION {[1..n -> {"1", ".", ","}] : n \in 0..MaxText}

\* The texts of the docstring and of the prompts, and texts with the
\* currency symbol, spaces, signs and letters
TypedTexts ==
    {<<"1", ",", "5", "0">>,
     <<"1", ".", "2", "3", "4", ",", "5", "0">>,
     <<"1", "2", "3", "4", ".", "5", "0">>,
     <<EURO, " ", "1", ".", "2", "3", "4", ",", "5", "0">>,
     <<"1", ",", "2", "3", "4", ".", "5", "0">>,
     <<"1", ".", "2", "3", "4", ",", "5", "6", "7", ",", "8", "9">>,
     <<"1", ".", "2", "3", "4", ".", "5", "6", "7", ",", "8", "9">>,
     <<"-", "1", ",", "5">>, <<"0">>, <<"n", "a", "n">>, <<"a", "b", "c">>,
     <<" ">>, <<"\t">>, <<NBSP>>, <<EURO>>, <<EURO, " ">>, <<" ", EURO, NBSP>>,
     <<"\t", EURO, " ", EURO>>, <<" ", "1", ",", "5", NBSP, EURO>>}

AmountTexts == SeparatorTexts \cup TypedTexts \cup {PyNone}

\* Amounts handed to format_amount: zero of either sign, values below and
\* at the rounding step, values with one, two and three groups, nan and inf
Amounts ==
    {Fin(neg, m) : neg \in BOOLEAN,
                   m \in {0, 4, 10, 1500, 1234, 999990, 999996, 1234500, 1234567890}}
    \cup {NaN, Inf(FALSE), Inf(TRUE)}

CodecInit ==
    /\ file = NoFile
    /\ tracker = "none"
    /\ expenses = <<>>
    /\ hist = <<>>
    /\ adds = 0
    /\ last = Call("init", 0, NoExpense, NoTyped, FALSE, FALSE, "", <<>>, file)
    /\ pc = "idle"
    /\ buf = <<>>
    /\ screen = NoScreen
    /\ login = NoLogin
    /\ peer = NoPeer
    /\ codec \in {CodecIn(s, Fin(FALSE, 0)) : s \in AmountTexts}
                 \cup {CodecIn(<<>>, x) : x \in Amounts}

\* tracker.parse_amount(s)
ParseAmount ==
    /\ codec.fn = "input"
    /\ LET p == parse_amount(codec.s) IN
        codec' = [codec EXCEPT !.fn = "parse_amount", !.ok = p.ok, !.v = p.v]
    /\ UNCHANGED <<file, tracker, expenses, hist, adds, last, pc, buf, peer, screen, login>>

\* tracker.format_amount(x)
FormatAmount ==
    /\ codec.fn = "input"
    /\ codec' = [codec EXCEPT !.fn = "format_amount", !.out = format_amount(codec.x)]
    /\ UNCHANGED <<file, tracker, expenses, hist, adds, last, pc, buf, peer, screen, login>>

\* tracker.parse_amount(tracker.format_amount(x)): the text just formatted
\* is parsed
ParseFormatted ==
    /\ codec.fn = "format_amount"
    /\ LET p == parse_amount(codec.out) IN
        codec' = [codec EXCEPT !.fn = "round_trip", !.ok = p.ok, !.v = p.v]
    /\ UNCHANGED <<file, tracker, expenses, hist, adds, last, pc, buf, peer, screen, login>>

\* main_menu, choice "1", with the text as the amount typed at the prompt
TypeAmount ==
    /\ codec.s # PyNone
    /\ Choice1(Typed(DateOk, Food, DescPlain, codec.s, Plus))

CodecNext ==
    \/ Construct
    \/ TypeAmount
    \/ ParseAmount
    \/ FormatAmount
    \/ ParseFormatted

CodecSpec == CodecInit /\ [][CodecNext]_vars

\* ------------------------------------------------------------------ login

\* The backspace key
BACKSPACE == "BS"

\* get_password_masked: the keys typed before Enter; a backspace takes the
\* last character back, every other key is appended
RECURSIVE get_password_masked(_)
get_password_masked(keys) ==
    IF keys = <<>> THEN <<>>
    ELSE LET pw_chars == get_password_masked(SubSeq(keys, 1, Len(keys) - 1))
             ch == keys[Len(keys)]
         IN IF ch = BACKSPACE
            THEN (IF pw_chars # <<>> THEN SubSeq(pw_chars, 1, Len(pw_chars) - 1) ELSE pw_chars)
            ELSE Append(pw_chars, ch)

\* The header of users.csv
UserFieldNames ==
    << <<"u", "s", "e", "r", "n", "a", "m", "e">>,
       <<"p", "a", "s", "s", "w", "o", "r", "d">> >>

admin == <<"a", "d", "m", "i", "n">>
alice == <<"a", "l", "i", "c", "e">>
Pw1234 == <<"1", "2", "3", "4">>
PwSecond == <<"2", "n", "d">>

\* The file load_users writes when there is none
SeedUsers ==
    FileOf(<<JoinRow(UserFieldNames), JoinRow(<<admin, Pw1234>>), 
            JoinRow(<< <<"u", "s", "e", "r">>, <<"u", "s", "e", "r", "p", "a", "s", "s">> >>)>>)

\* `r.get(key) or ""`, stripped
UserField(names, row, key) ==
    LET g == RowGet(names, row, key)
    IN IF ~g.has \/ g.v = PyNone THEN <<>> ELSE strip(g.v)

\* The loop of load_users over the first n rows
RECURSIVE UsersOf(_, _, _)
UsersOf(names, data, n) ==
    IF n = 0 THEN <<>>
    ELSE LET users == UsersOf(names, data, n - 1)
             row == ReadRow(data[n])
             u == UserField(names, row, UserFieldNames[1])
             p == UserField(names, row, UserFieldNames[2])
         IN IF u # <<>> THEN DictSet(users, u, p) ELSE users

\* load_users on the users file f: the file it leaves and the dict it returns
load_users(f) ==
    LET g == IF f.exists THEN f ELSE SeedUsers
        data == IF g.lines = <<>> THEN <<>>
                ELSE SelectSeq(Tail(g.lines), LAMBDA l : l # <<>>)
    IN [file |-> g,
        users |-> IF g.lines = <<>> THEN <<>>
                  ELSE UsersOf(ReadRow(g.lines[1]), data, Len(data))]

\* The attempts of the entry point's call of authenticate_user
max_attempts == 3

\* One pass of the loop of authenticate_user that accepts every password of
\* a known username
authenticate_user_anypw(users, attempt, typed, keys) ==
    LET username == strip(typed)
        password == get_password_masked(keys)
        expected == DictGet(users, username, PyNone)
    IN IF expected # PyNone
       THEN [returned |-> TRUE, ret |-> username, attempt |-> attempt,
             username |-> username, password |-> password]
       ELSE [returned |-> attempt - 1 = 0, ret |-> PyNone, attempt |-> attempt - 1,
             username |-> username, password |-> password]

\* One pass of the loop of authenticate_user with `attempt` attempts left:
\* the username line and the password keys typed.  returned = TRUE with the
\* username on a match, and with None when the loop has run out.
authenticate_user(users, attempt, typed, keys) ==
    LET username == strip(typed)
        password == get_password_masked(keys)
        expected == DictGet(users, username, PyNone)
    IN IF expected # PyNone /\ password = expected
       THEN [returned |-> TRUE, ret |-> username, attempt |-> attempt,
             username |-> username, password |-> password]
       ELSE [returned |-> attempt - 1 = 0, ret |-> PyNone, attempt |-> attempt - 1,
             username |-> username, password |-> password]

\* A users file with spaces around the fields, a row without a username, a
\* username given twice and a row without a password
FileUsers ==
    FileOf(<<JoinRow(UserFieldNames),
             <<" ">> \o alice \o <<" ", ",", " ">> \o <<"p", "w">> \o <<" ">>,
             <<",">> \o Pw1234,
             alice \o <<",">> \o PwSecond,
             <<"b", "o", "b">> >>)

\* The username lines and the password keys typed at the login box
TypedNames == {admin, <<" ">> \o alice \o <<" ">>, <<"b", "o", "b">>, <<>>}
TypedKeys == {Pw1234, <<"1", "2", "x", BACKSPACE, "3", "4">>, <<"p", "w">>, PwSecond, <<>>}

LoginInit ==
    /\ file \in TwoFiles
    /\ tracker = "none"
    /\ expenses = <<>>
    /\ hist = <<>>
    /\ adds = 0
    /\ last = Call("init", 0, NoExpense, NoTyped, FALSE, FALSE, "", <<>>, file)
    /\ pc = "idle"
    /\ buf = <<>>
    /\ peer = NoPeer
    /\ codec = NoCodec
    /\ screen = NoScreen
    /\ login \in {[NoLogin EXCEPT !.ufile = f] : f \in {NoFile, FileUsers}}

\* users = load_users(...)
LoadUsers ==
    /\ login.pc = "start"
    /\ LET l == load_users(login.ufile) IN
        login' = [login EXCEPT !.pc = "auth", !.ufile = l.file, !.users = l.users,
                               !.attempt = max_attempts]
    /\ UNCHANGED <<file, tracker, expenses, hist, adds, last, pc, buf, peer, codec, screen>>

\* One pass of the loop of authenticate_user, up to its return
Attempt(typed, keys) ==
    /\ login.pc = "auth"
    /\ LET a == authenticate_user(login.users, login.attempt, typed, keys) IN
        login' = [login EXCEPT !.pc = IF a.returned THEN "returned" ELSE "auth",
                               !.attempt = a.attempt,
                               !.fails = IF a.ret = PyNone THEN @ + 1 ELSE @,
                               !.username = a.username,
                               !.password = a.password,
                               !.user = a.ret]
    /\ UNCHANGED <<file, tracker, expenses, hist, adds, last, pc, buf, peer, codec, screen>>

\* `if not user`: the failure message, and the program ends
LoginFailed ==
    /\ login.pc = "returned"
    /\ login.user = PyNone \/ login.user = <<>>
    /\ login' = [login EXCEPT !.pc = "ended"]
    /\ UNCHANGED <<file, tracker, expenses, hist, adds, last, pc, buf, peer, codec, screen>>

\* `else: main_menu()`
EnterMenu ==
    /\ login.pc = "returned"
    /\ login.user # PyNone /\ login.user # <<>>
    /\ login' = [login EXCEPT !.pc = "menu"]
    /\ UNCHANGED <<file, tracker, expenses, hist, adds, last, pc, buf, peer, codec, screen>>

\* tracker = ExpenseTracker(), the first statement of main_menu
MenuConstruct ==
    /\ login.pc = "menu"
    /\ Construct

LoginNext ==
    \/ LoadUsers
    \/ \E typed \in TypedNames, keys \in TypedKeys : Attempt(typed, keys)
    \/ LoginFailed
    \/ EnterMenu
    \/ MenuConstruct
    \/ \E r \in TwoRecords : AddExpense(r)
    \/ \E k \in 0..MaxHist : DeleteEntry(k)

LoginSpec == LoginInit /\ [][LoginNext]_vars

\* ------------------------------------------------- view, search, summary

DateShort == <<"2", "0", "2", "4", "-", "1", "-", "5">>
DescLong == <<"a", "b", "c", "d", "e", "f", "a", "b", "c", "d", "e", "f", "a">>
Restaurant == <<"R", "e", "s", "t", "a", "u", "r", "a", "n", "t">>
FOOD == <<"F", "O", "O", "D">>

\* A backing file written by an earlier run: an income in Food and an
\* expense in food, typed with a one-digit month and day and a long
\* description
FileView ==
    FileOf(<<HeaderLine,
             RowText(<<"1", "0", "0", ".", "0", "0">>),
             DateShort \o <<",">> \o food \o <<",">> \o DescLong \o <<",">>
                 \o <<"-", "4", "0", ".", "0", "0">>>>)

\* Entries typed before the ledger is viewed: an expense and an income in
\* Food, and "inf" typed as an amount
ViewInputs ==
    {Typed(DateOk, Food, DescPlain, <<"2", "0">>, Minus),
     Typed(DateOk, Food, DescPlain, <<"9", "5", "0">>, Plus),
     Typed(DateOk, Restaurant, DescPlain, <<"i", "n", "f">>, Plus)}

\* Categories typed into the search
SearchInputs == {Food, FOOD, <<" ", "r", "e", "n", "t">>}

ViewInit == InitWith({NoFile, FileView})

\* tracker.view_expenses() (menu choice "2")
ViewExpenses ==
    /\ tracker = "ok" /\ pc = "idle"
    /\ screen' = Screen("view", expenses, <<>>, view_expenses(expenses))
    /\ UNCHANGED <<file, tracker, expenses, hist, adds, last, pc, buf, peer, codec, login>>

\* tracker.search_by_category(category) with the category typed and
\* stripped (menu choice "3")
SearchByCategory(typed) ==
    /\ tracker = "ok" /\ pc = "idle"
    /\ screen' = Screen("search", expenses, strip(typed),
                        search_by_category(expenses, strip(typed)))
    /\ UNCHANGED <<file, tracker, expenses, hist, adds, last, pc, buf, peer, codec, login>>

\* tracker.plot_summary() (menu choice "5")
PlotSummary ==
    /\ tracker = "ok" /\ pc = "idle"
    /\ screen' = Screen("plot", expenses, <<>>, plot_summary(expenses))
    /\ UNCHANGED <<file, tracker, expenses, hist, adds, last, pc, buf, peer, codec, login>>

ViewNext ==
    \/ Construct
    \/ \E in \in ViewInputs : AddExpense(EntryRecord(in))
    \/ \E k \in 0..MaxHist : DeleteEntry(k)
    \/ ViewExpenses
    \/ \E c \in SearchInputs : SearchByCategory(c)
    \/ PlotSummary

ViewSpec == ViewInit /\ [][ViewNext]_vars

\* C1: delete_entry(k) with 1 <= k <= n returns True, the length becomes
\* n-1, the records before k keep their positions, each record after k moves
\* down by one, and nothing else is removed or altered.
C1_DeleteShiftsDown ==
    (last.op = "delete" /\ last.k \in 1..Len(last.pre)) =>
        /\ last.ret
        /\ Len(expenses) = Len(last.pre) - 1
        /\ \A j \in 1..(last.k - 1) : expenses[j] = last.pre[j]
        /\ \A j \in (last.k + 1)..Len(last.pre) : expenses[j - 1] = last.pre[j]

\* A delete in the middle of three records, the neighbours differing
C1_Witness ==
    /\ last.op = "delete" /\ last.ret
    /\ Len(last.pre) = 3 /\ last.k = 2
    /\ last.pre[1] # last.pre[3]
    /\ expenses = <<last.pre[1], last.pre[3]>>

\* C2: delete_entry(k) with k < 1 or k > length returns False, leaves the
\* record sequence unchanged and does not rewrite the backing file.
C2_DeleteOutOfRange ==
    (last.op = "delete" /\ (last.k < 1 \/ last.k > Len(last.pre))) =>
        /\ ~last.ret
        /\ expenses = last.pre
        /\ file = last.prefile
        /\ ~last.saved

\* Position 0 on a ledger that holds records
C2_Witness ==
    /\ last.op = "delete" /\ last.k = 0 /\ last.pre # <<>>
    /\ ~last.ret /\ expenses = last.pre

\* s is t with some elements left out, order kept
RECURSIVE IsSubseq(_, _)
IsSubseq(s, t) ==
    IF s = <<>> THEN TRUE
    ELSE IF t = <<>> THEN FALSE
    ELSE IF Head(s) = Head(t) THEN IsSubseq(Tail(s), Tail(t))
    ELSE IsSubseq(s, Tail(t))

\* C3: add_expense(r) on a ledger of length n puts r at position n+1 and
\* leaves positions 1..n as they were, also when r equals a record already
\* present; after any adds and deletes the surviving records are in the
\* order in which they were loaded and appended.
C3_AppendAtTail ==
    /\ last.op = "add" =>
        /\ Len(expenses) = Len(last.pre) + 1
        /\ expenses[Len(expenses)] = last.r
        /\ \A j \in 1..Len(last.pre) : expenses[j] = last.pre[j]
    /\ tracker = "ok" => IsSubseq(expenses, hist)

\* A record is appended that the ledger already holds
C3_Witness ==
    /\ last.op = "add"
    /\ \E j \in 1..Len(last.pre) : last.pre[j] = last.r
    /\ Len(expenses) = Len(last.pre) + 1

\* C4: after every add_expense and every delete_entry that returned True the
\* file is the header row date,category,description,amount followed by
\* exactly one row per in-memory record, in ledger order.
C4_FileMirrorsLedger ==
    (last.op \in {"add", "delete"} /\ last.ret) =>
        /\ file.exists
        /\ Len(file.lines) = Len(expenses) + 1
        /\ ReadRow(file.lines[1]) = FieldNames
        /\ \A i \in 1..Len(expenses) : ReadRow(file.lines[i + 1]) = to_dict(expenses[i])

\* A delete that leaves records behind: the file written before it was longer
C4_Witness ==
    /\ last.op = "delete" /\ last.ret
    /\ expenses # <<>>
    /\ Len(last.prefile.lines) = Len(file.lines) + 1

\* Field-wise equality of two records
FieldEq(a, b) ==
    /\ a.date = b.date /\ a.category = b.category /\ a.description = b.description
    /\ FloatEq(a.amount, b.amount)

\* C5: appending n records and then constructing a new tracker on the same
\* file yields n records field-wise equal to the appended ones, in order.
C5_ReloadEqualsAppended ==
    (last.op = "load" /\ last.ret /\ last.k >= 1) =>
        /\ tracker = "ok"
        /\ Len(expenses) = Len(last.pre)
        /\ \A i \in 1..Len(last.pre) : FieldEq(expenses[i], last.pre[i])

\* C6: if the process stops during save_expenses, the file holds either the
\* complete previous record set or the complete new one.
C6_PersistAtomic ==
    tracker = "killed" =>
        \/ file = last.prefile
        \/ file = save_expenses(last.prefile, expenses)

\* [sign] digits [. digits] with a digit somewhere: a plain decimal number
IsPlainDecimal(s) ==
    LET b == IF s # <<>> /\ s[1] \in {"+", "-"} THEN Tail(s) ELSE s
        n == Len(SelectSeq(b, LAMBDA c : c = "."))
    IN /\ n <= 1
       /\ \A i \in 1..Len(b) : IsDigit(b[i]) \/ b[i] = "."
       /\ \E i \in 1..Len(b) : IsDigit(b[i])

\* Some row of the file lacks the amount column or holds no plain decimal there
HasMalformedRow(f) ==
    /\ f.exists
    /\ \E i \in 2..Len(f.lines) :
        LET row == ReadRow(f.lines[i])
        IN row # <<>> /\ (Len(row) < 4 \/ ~IsPlainDecimal(row[4]))

\* C7: if any row of the file has an amount that is not a plain decimal
\* number, or lacks the amount column, load_expenses fails as a whole and
\* the file is left unchanged.
C7_LoadFailsOnMalformedRow ==
    (last.op = "load" /\ HasMalformedRow(last.prefile)) =>
        /\ tracker = "raised"
        /\ expenses = <<>>
        /\ file = last.prefile

\* C8: constructing a tracker when the file does not exist yields an empty
\* ledger, raises nothing and does not create the file; the file comes into
\* existence only at a persist.
C8_AbsentFileIsFirstRun ==
    /\ (last.op = "load" /\ ~last.prefile.exists) =>
        (tracker = "ok" /\ expenses = <<>> /\ ~file.exists)
    /\ (file.exists /\ ~last.prefile.exists) => (last.saved /\ last.op = "add")

\* The first record is appended to a tracker built without a file
C8_Witness ==
    /\ last.op = "add" /\ ~last.prefile.exists /\ file.exists
    /\ last.pre = <<>> /\ adds = 1

\* C9: every record in the ledger has a finite amount.
C9_AmountsFinite ==
    \A i \in 1..Len(expenses) : isfinite(expenses[i].amount)

\* C10: a polarity token that is neither "+" nor "-" is treated as expense:
\* the record with amount -|magnitude| is appended and persisted and
\* control returns to the menu.
C10_BadSignMeansExpense ==
    (/\ last.op = "choice1"
     /\ strptime_ok(strip(last.in.date))
     /\ parse_amount(strip(last.in.amount)).ok
     /\ strip(last.in.sign) \notin {Plus, Minus}) =>
        /\ tracker = "ok"
        /\ last.saved
        /\ expenses = Append(last.pre,
               Expense(strip(last.in.date), strip(last.in.category),
                       strip(last.in.description),
                       negabs(parse_amount(strip(last.in.amount)).v)))
        /\ file = save_expenses(last.prefile, expenses)

\* C11: the amount stored by the add branch is |m| under "+" and -|m| under
\* "-", whatever the sign of the parsed magnitude m.
C11_PolarityDecidesSign ==
    (last.op = "choice1" /\ last.saved) =>
        LET m == parse_amount(strip(last.in.amount)).v
            stored == expenses[Len(expenses)].amount
        IN /\ strip(last.in.sign) \in {Plus, Minus}
           /\ stored.k = m.k /\ stored.m = m.m
           /\ ~isnan(m) => (stored.neg <=> strip(last.in.sign) = Minus)

\* A magnitude typed with a minus sign is stored as income under "+"
C11_Witness ==
    /\ last.op = "choice1" /\ last.saved
    /\ last.in.amount = <<"-", "1", ",", "5">> /\ last.in.sign = Plus
    /\ expenses[Len(expenses)].amount = Fin(FALSE, 1500)

\* C12: no failure condition ends the process: after a malformed row met
\* while the menu constructs the tracker, and after an invalid date or
\* amount, a message is reported and control is back at the menu.
C12_FailuresReturnToMenu ==
    /\ last.op = "load" => tracker = "ok"
    /\ (last.op = "choice1" /\ last.msg \in {"invalid_date", "invalid_amount"}) =>
            tracker = "ok"

\* C13: an invalid date or an amount parse_amount rejects appends nothing,
\* leaves the ledger and the file unchanged, and the menu is shown again.
C13_RejectedEntryChangesNothing ==
    (/\ last.op = "choice1"
     /\ \/ ~strptime_ok(strip(last.in.date))
        \/ ~parse_amount(strip(last.in.amount)).ok) =>
        /\ tracker = "ok"
        /\ expenses = last.pre
        /\ file = last.prefile
        /\ ~last.saved
        /\ last.msg \in {"invalid_date", "invalid_amount"}

\* An invalid date is typed with a parsable amount while the ledger holds records
C13_Witness ==
    /\ last.op = "choice1" /\ last.in.date = DateBad
    /\ parse_amount(last.in.amount).ok
    /\ last.pre # <<>> /\ expenses = last.pre /\ last.msg = "invalid_date"

\* C14: delete_entry runs only after the secret typed for that request
\* equals the admin secret; a wrong secret or a non-numeric entry number
\* leaves ledger and file unchanged, and one correct secret removes at most
\* one record.
C14_DeleteNeedsSecret ==
    last.op = "choice7" =>
        /\ (last.in.pw # AdminSecret \/ ~AllDigits(strip(last.in.num))) =>
                (expenses = last.pre /\ file = last.prefile /\ ~last.saved
                 /\ last.msg \in {"pw_wrong", "delete_invalid"})
        /\ last.msg = "delete_success" =>
                (last.in.pw = AdminSecret /\ Len(expenses) = Len(last.pre) - 1)
        /\ Len(last.pre) - Len(expenses) \in {0, 1}

\* A wrong secret is typed for an entry that exists
C14_Witness ==
    /\ last.op = "choice7" /\ last.in.pw # AdminSecret
    /\ last.in.num = <<"1">> /\ last.pre # <<>>
    /\ expenses = last.pre /\ last.msg = "pw_wrong"

\* The records a tracker appended itself, and the rows a file holds
Appended(h, n) == SubSeq(h, Len(h) - n + 1, Len(h))
Loaded(h, n) == SubSeq(h, 1, Len(h) - n)
RowOf(r) == WriteRow(to_dict(r))
HasRow(f, r) == \E i \in 1..Len(f.lines) : f.lines[i] = RowOf(r)

\* C15: with two processes on one backing file the later persist wins.
\* After an append by one process the file holds exactly what that process
\* loaded and appended itself; a record the other process appended and
\* persisted after that load is absent from it.
C15_LaterPersistOverwrites ==
    /\ last.op = "peer_add" =>
        /\ file = FileOf(SaveLines(peer.hist))
        /\ \A i \in 1..adds :
              LET r == Appended(hist, adds)[i] IN
              (\A j \in 1..Len(peer.hist) : RowOf(peer.hist[j]) # RowOf(r))
                  => ~HasRow(file, r)
    /\ (last.op = "add" /\ peer.tracker = "ok") =>
        /\ file = FileOf(SaveLines(hist))
        /\ \A i \in 1..peer.adds :
              LET r == Appended(peer.hist, peer.adds)[i] IN
              (\A j \in 1..Len(hist) : RowOf(hist[j]) # RowOf(r))
                  => ~HasRow(file, r)

\* Both processes loaded the same file; A appended a record and persisted
\* it, then B appended another: A's row was in the file and is gone.
C15_Witness ==
    /\ tracker = "ok" /\ peer.tracker = "ok"
    /\ Loaded(hist, adds) = Loaded(peer.hist, peer.adds)
    /\ Loaded(hist, adds) # <<>>
    /\ adds = 1 /\ peer.adds = 1
    /\ last.op = "peer_add"
    /\ last.prefile = FileOf(SaveLines(hist))
    /\ HasRow(last.prefile, hist[Len(hist)])
    /\ ~HasRow(file, hist[Len(hist)])
    /\ Len(file.lines) = Len(last.prefile.lines)

\* A text without the currency symbol and without spaces
Purge(s) == SelectSeq(s, LAMBDA c : ~IsSpace(c) /\ c # EURO)

Unsigned(b) == IF b # <<>> /\ b[1] \in {"+", "-"} THEN Tail(b) ELSE b
IntPart(u, dec) == IF Contains(u, dec) THEN SubSeq(u, 1, IndexOf(u, dec) - 1) ELSE u
FracPart(u, dec) == IF Contains(u, dec) THEN SubSeq(u, IndexOf(u, dec) + 1, Len(u)) ELSE <<>>

\* Integer digits, plain or in groups of three separated by thou
Grouped(ip, thou) ==
    /\ ip # <<>> /\ IsDigit(ip[1])
    /\ \/ AllDigits(ip)
       \/ \A i \in 1..Len(ip) :
             IF (Len(ip) - i + 1) % 4 = 0 THEN ip[i] = thou ELSE IsDigit(ip[i])

\* b is a number written with dec as decimal mark and thou as thousands mark
WellFormed(b, dec, thou) ==
    LET u == Unsigned(b) IN
    /\ Grouped(IntPart(u, dec), thou)
    /\ Contains(u, dec) => (FracPart(u, dec) # <<>> /\ AllDigits(FracPart(u, dec)))

\* The number such a text denotes
Denoted(b, dec, thou) ==
    LET u == Unsigned(b)
    IN Fin(b[1] = "-",
           NatOf(SelectSeq(IntPart(u, dec), IsDigit)) * Scale + FracMills(FracPart(u, dec)))

\* C16: for a well-formed numeric text in either separator convention,
\* with or without the currency symbol and spaces, parse_amount returns the
\* number the text denotes (a text well formed in both conventions may
\* denote either number).
C16_ParsesEitherConvention ==
    (codec.fn = "parse_amount" /\ codec.s # PyNone) =>
        LET b == Purge(codec.s)
            de == WellFormed(b, ",", ".")
            en == WellFormed(b, ".", ",")
        IN (de \/ en) =>
            /\ codec.ok
            /\ \/ de /\ FloatEq(codec.v, Denoted(b, ",", "."))
               \/ en /\ FloatEq(codec.v, Denoted(b, ".", ","))

Count(s, c) == Len(SelectSeq(s, LAMBDA x : x = c))
Without(s, c) == SelectSeq(s, LAMBDA x : x # c)

\* The cleaned text holds a period and a comma (and no tab inside)
BothSeparators(s) ==
    /\ s # PyNone /\ ~Contains(s, "\t")
    /\ Contains(s, ".") /\ Contains(s, ",")

\* C17 as stated: with a period and a comma in the cleaned text the periods
\* are removed, the last comma is the decimal mark and the commas before
\* it are removed, so a text with several commas still parses.
C17_LastCommaIsDecimal ==
    (codec.fn = "parse_amount" /\ BothSeparators(codec.s)) =>
        LET np == Without(Purge(codec.s), ".")
            k == LastIndexOf(np, ",")
            e == float(Without(SubSeq(np, 1, k - 1), ",") \o <<".">>
                       \o SubSeq(np, k + 1, Len(np)))
        IN codec.ok = e.ok /\ (codec.ok => codec.v = e.v)

\* C17, amended: with a period and a comma in the cleaned text every period
\* is removed and every comma becomes a decimal point; a single comma is
\* the decimal mark, and a text with two or more commas is rejected.
C17_EveryCommaIsDecimal ==
    (codec.fn = "parse_amount" /\ BothSeparators(codec.s)) =>
        LET b == Purge(codec.s)
            k == IndexOf(b, ",")
            e == float(Without(SubSeq(b, 1, k - 1), ".") \o <<".">>
                       \o Without(SubSeq(b, k + 1, Len(b)), "."))
        IN IF Count(b, ",") >= 2 THEN ~codec.ok
           ELSE codec.ok = e.ok /\ (codec.ok => codec.v = e.v)

\* A text with a period and two commas is rejected
C17_Witness ==
    /\ codec.fn = "parse_amount"
    /\ codec.s = <<"1", ".", "2", "3", "4", ",", "5", "6", "7", ",", "8", "9">>
    /\ ~codec.ok

\* C18: parse_amount(format_amount(x)) is x to two decimal places, for
\* every finite x: the sign is kept, the value differs from x by at most
\* half a cent and is x itself when x has two decimals.
C18_ParseInvertsFormat ==
    (codec.fn = "round_trip" /\ isfinite(codec.x)) =>
        /\ codec.ok /\ isfinite(codec.v)
        /\ codec.v.neg = codec.x.neg
        /\ codec.v.m - codec.x.m \in -5..5
        /\ codec.v.m % 10 = 0
        /\ codec.x.m % 10 = 0 => codec.v = codec.x

\* A negative amount with three groups comes back unchanged
C18_Witness ==
    /\ codec.fn = "round_trip"
    /\ codec.x = Fin(TRUE, 1234567890)
    /\ codec.out = <<"-", "1", ".", "2", "3", "4", ".", "5", "6", "7", ",", "8", "9", EURO>>
    /\ codec.v = codec.x

\* C19: parse_amount fails, returning no number, on None, on the empty
\* text, on whitespace and on a text of nothing but currency symbols and
\* spaces.
C19_EmptyAmountFails ==
    (/\ codec.fn = "parse_amount"
     /\ \/ codec.s = PyNone
        \/ \A i \in 1..Len(codec.s) : IsSpace(codec.s[i]) \/ codec.s[i] = EURO) =>
        ~codec.ok

\* The currency symbol between spaces is rejected
C19_Witness ==
    /\ codec.fn = "parse_amount"
    /\ codec.s = <<" ", EURO, NBSP>>
    /\ ~codec.ok

\* The shape of a formatted amount: a minus sign (when minus), digits in
\* groups of three separated by ".", ",", two digits, the currency symbol
FormatShape(out, minus) ==
    /\ Len(out) >= 5
    /\ out[Len(out)] = EURO
    /\ LET t == SubSeq(out, 1, Len(out) - 1)
           u == IF minus THEN Tail(t) ELSE t
           n == Len(u)
       IN /\ minus => t[1] = "-"
          /\ n >= 4
          /\ u[n - 2] = "," /\ IsDigit(u[n - 1]) /\ IsDigit(u[n])
          /\ IsDigit(u[1])
          /\ \A i \in 1..(n - 3) :
                IF (n - 3 - i + 1) % 4 = 0 THEN u[i] = "." ELSE IsDigit(u[i])

\* The amount the digits of a formatted text spell, in thousandths
Spelled(out) == NatOf(SelectSeq(out, IsDigit)) * 10

\* C20 as stated: the formatted text of a finite amount has the shape
\* above, with the minus sign exactly for negative amounts.
C20_MinusIffNegative ==
    (codec.fn = "format_amount" /\ isfinite(codec.x)) =>
        /\ FormatShape(codec.out, codec.x.neg /\ codec.x.m > 0)
        /\ Spelled(codec.out) - codec.x.m \in -5..5

\* C20, amended: the minus sign is there exactly when the amount is
\* negative or is the negative zero; 1234.5 gives "1.234,50" and the symbol.
C20_MinusIffSignSet ==
    (codec.fn = "format_amount" /\ isfinite(codec.x)) =>
        /\ FormatShape(codec.out, codec.x.neg)
        /\ Spelled(codec.out) - codec.x.m \in -5..5
        /\ codec.x = Fin(FALSE, 1234500) =>
              codec.out = <<"1", ".", "2", "3", "4", ",", "5", "0", EURO>>

\* A negative amount with one group is formatted
C20_Witness ==
    /\ codec.fn = "format_amount"
    /\ codec.x = Fin(TRUE, 1234500)
    /\ codec.out = <<"-", "1", ".", "2", "3", "4", ",", "5", "0", EURO>>

\* The signed value of a finite amount in thousandths, and their exact sum
SignedMills(x) == IF x.neg THEN 0 - x.m ELSE x.m
RECURSIVE IntSum(_)
IntSum(exps) == IF exps = <<>> THEN 0 ELSE SignedMills(Head(exps).amount) + IntSum(Tail(exps))

\* C21: get_total() is the arithmetic sum of the signed amounts of the
\* records in the ledger, 0 when it is empty, and an appended or removed
\* record changes it by exactly its amount.
C21_TotalIsArithmeticSum ==
    tracker = "ok" =>
        /\ isfinite(get_total(expenses))
        /\ SignedMills(get_total(expenses)) = IntSum(expenses)
        /\ last.op = "add" =>
              SignedMills(get_total(expenses)) - SignedMills(get_total(last.pre))
                  = SignedMills(last.r.amount)
        /\ (last.op = "delete" /\ last.ret) =>
              SignedMills(get_total(last.pre)) - SignedMills(get_total(expenses))
                  = SignedMills(last.pre[last.k].amount)
        /\ (screen.op = "view" /\ expenses # <<>>) =>
              Spelled(screen.out.lines[Len(screen.out.lines)])
                  = (IF IntSum(expenses) < 0 THEN 0 - IntSum(expenses) ELSE IntSum(expenses))

\* Two letters equal when case is ignored, and two texts so
SameLetter(c, d) ==
    c = d \/ \E n \in 1..Len(UpperChars) : {c, d} = {UpperChars[n], LowerChars[n]}
SameIgnoringCase(a, b) ==
    Len(a) = Len(b) /\ \A i \in 1..Len(a) : SameLetter(a[i], b[i])

\* The positions in exps of the records in category name, case ignored,
\* and the j-th of them
Matching(exps, name) == {i \in 1..Len(exps) : SameIgnoringCase(exps[i].category, name)}
NthOf(S, j) == CHOOSE i \in S : Cardinality({m \in S : m < i}) = j - 1

\* C22: search_by_category(name) reports exactly the records whose
\* category is name with letter case ignored, in ledger order, each once,
\* and a search changes neither the ledger nor the backing file.
C22_SearchIgnoresCase ==
    /\ [](screen.op = "search" =>
            LET S == Matching(screen.of, screen.arg)
                results == screen.out.results
            IN /\ Len(results) = Cardinality(S)
               /\ \A j \in 1..Len(results) : results[j] = screen.of[NthOf(S, j)]
               /\ (results = <<>>) = (screen.out.lines = << <<"No matching expenses found.">> >>))
    /\ [][(screen'.op = "search" /\ screen' # screen) =>
            (expenses' = expenses /\ file' = file /\ screen'.of = expenses)]_vars

\* A search typed in capitals reports two records of different case and
\* leaves out the record of another category
C22_Witness ==
    /\ screen.op = "search" /\ screen.arg = FOOD
    /\ Len(screen.out.results) = 2
    /\ Len(screen.of) = 3
    /\ screen.out.results[1].category # screen.out.results[2].category
    /\ screen.of[3].category = Restaurant
    /\ screen.out.results = <<screen.of[1], screen.of[2]>>

\* C23: every category passed to the chart sink has a summed total that
\* is finite and greater than zero.
C23_ChartedTotalsFinitePositive ==
    (screen.op = "plot" /\ screen.out.sink.called) =>
        \A i \in 1..Len(screen.out.sink.totals) :
            /\ isfinite(screen.out.sink.totals[i])
            /\ Positive(screen.out.sink.totals[i])

\* The sum plot_summary forms for category c: the amounts that are numbers
\* of the records with exactly that category
CatSum(exps, c) ==
    get_total(SelectSeq(exps, LAMBDA e : e.category = c /\ ~isnan(e.amount)))

\* C24: with an empty ledger or no category of positive sum plot_summary
\* prints a notice and does not call the chart sink; the sink never
\* receives an empty dataset.
C24_NoChartWithoutData ==
    screen.op = "plot" =>
        LET somePositive ==
                \E i \in 1..Len(screen.of) :
                    Positive(CatSum(screen.of, screen.of[i].category))
        IN /\ (screen.of = <<>> \/ ~somePositive) =>
                  (~screen.out.sink.called /\ Len(screen.out.lines) = 1)
           /\ screen.out.sink.called =>
                  /\ screen.out.sink.labels # <<>>
                  /\ Len(screen.out.sink.labels) = Len(screen.out.sink.totals)
           /\ somePositive => screen.out.sink.called

\* A ledger holding only an expense is summarised: the notice, no chart
C24_Witness ==
    /\ screen.op = "plot" /\ screen.of # <<>>
    /\ \A i \in 1..Len(screen.of) : screen.of[i].amount.neg
    /\ ~screen.out.sink.called
    /\ screen.out.lines = << <<"Keine positiven Betraege zum Darstellen.">> >>

\* w is the larger of floor and the longest of texts
IsMaxWidth(w, floor, texts) ==
    /\ w >= floor /\ \A i \in 1..Len(texts) : w >= Len(texts[i])
    /\ w = floor \/ \E i \in 1..Len(texts) : w = Len(texts[i])

Column(exps, f) == [i \in 1..Len(exps) |-> exps[i][f]]
AmountCells(exps) ==
    [i \in 1..Len(exps) |-> format_amount(exps[i].amount)] \o <<format_amount(get_total(exps))>>

\* C25 as stated: every column is as wide as the longer of its heading and
\* its longest cell, the date column included.
C25_WidthIsHeadingOrLongestCell ==
    (screen.op = "view" /\ screen.of # <<>>) =>
        /\ IsMaxWidth(screen.out.widths.date, Len(Headers.date), Column(screen.of, "date"))
        /\ IsMaxWidth(screen.out.widths.cat, Len(Headers.cat), Column(screen.of, "category"))
        /\ IsMaxWidth(screen.out.widths.desc, Len(Headers.desc),
                      Column(screen.of, "description"))
        /\ IsMaxWidth(screen.out.widths.amt, Len(Headers.amt), AmountCells(screen.of))

\* The length of a date written in full: YYYY-MM-DD
FullDate == Len(DateOk)

\* C25, amended: the category, description and amount columns are as wide
\* as the longer of heading and longest cell (the formatted total counts as
\* a cell); the date column is as wide as the longer of ten characters and
\* the longest date.
C25_WidthIsFloorOrLongestCell ==
    (screen.op = "view" /\ screen.of # <<>>) =>
        /\ IsMaxWidth(screen.out.widths.date, FullDate, Column(screen.of, "date"))
        /\ IsMaxWidth(screen.out.widths.cat, Len(Headers.cat), Column(screen.of, "category"))
        /\ IsMaxWidth(screen.out.widths.desc, Len(Headers.desc),
                      Column(screen.of, "description"))
        /\ IsMaxWidth(screen.out.widths.amt, Len(Headers.amt), AmountCells(screen.of))
        /\ \A i \in 1..Len(screen.of) :
              LET row == screen.out.lines[3 + i]
                  w == screen.out.widths
                  at == w.nr + 3 + w.date + 3 + w.cat + 3
              IN SubSeq(row, at + 1, at + w.desc) = ljust(screen.of[i].description, w.desc)

\* A description longer than its heading widens its column, and the
\* formatted total, longer than every amount, widens the amount column
C25_Witness ==
    /\ screen.op = "view" /\ Len(screen.of) = 3
    /\ screen.out.widths.desc = Len(DescLong)
    /\ screen.out.widths.amt = Len(format_amount(get_total(screen.of)))
    /\ \A i \in 1..Len(screen.of) :
          Len(format_amount(screen.of[i].amount)) < screen.out.widths.amt

\* C26: the label of the totals row fills the combined width of the columns
\* before the amount, and the totals value ends in the same text column as
\* the amount of every row and as the rule.
C26_TotalUnderAmountColumn ==
    (screen.op = "view" /\ screen.of # <<>>) =>
        LET lines == screen.out.lines
            w == screen.out.widths
            n == Len(screen.of)
            rule == lines[3]
            totalrow == lines[Len(lines)]
            labelw == w.nr + 3 + w.date + 3 + w.cat + 3 + w.desc
        IN /\ SubSeq(totalrow, 1, labelw) = ljust(TotalLabel, labelw)
           /\ Len(totalrow) = Len(rule)
           /\ \A i \in 1..n : Len(lines[3 + i]) = Len(rule)
           /\ totalrow[Len(totalrow)] = EURO

\* C27: view_expenses prints one row per record in ledger order, numbered
\* with the position delete_entry uses: delete_entry(k) removes the record
\* shown with number k, and a view after a delete shows the later records
\* numbered one lower.
C27_RowNumberIsDeletePosition ==
    (screen.op = "view" /\ screen.of # <<>>) =>
        LET lines == screen.out.lines
            w == screen.out.widths
            n == Len(screen.of)
            nr(i) == strip(SubSeq(lines[3 + i], 1, w.nr))
            date(i) == SubSeq(lines[3 + i], w.nr + 4, w.nr + 3 + w.date)
            shown(k) == CHOOSE i \in 1..n : nr(i) = NatStr(k)
        IN /\ Len(lines) = n + 5
           /\ screen.of = expenses
           /\ \A i \in 1..n :
                 /\ nr(i) = NatStr(i)
                 /\ date(i) = ljust(expenses[i].date, w.date)
                 /\ Contains(lines[3 + i], EURO)
           /\ \A k \in 1..n :
                 LET d == delete_entry(file, expenses, k)
                 IN /\ d.ret
                    /\ Len(d.expenses) = n - 1
                    /\ \A j \in 1..(n - 1) :
                          d.expenses[j] = expenses[IF j < shown(k) THEN j ELSE j + 1]
           /\ (last.op = "delete" /\ last.ret) =>
                 \A j \in last.k..n : expenses[j] = last.pre[j + 1]

\* After record 1 of three was deleted the view shows the former records
\* 2 and 3 as numbers 1 and 2
C27_Witness ==
    /\ screen.op = "view" /\ last.op = "delete" /\ last.ret /\ last.k = 1
    /\ Len(last.pre) = 3 /\ last.pre[2] # last.pre[3] /\ last.pre[1] # last.pre[2]
    /\ expenses = <<last.pre[2], last.pre[3]>>
    /\ Len(screen.out.lines) = 7

\* C30: for every text that, cleaned of the currency symbol and of spaces,
\* holds two or more commas and no period, parse_amount fails and returns
\* no value, and the add branch given that text as the amount prints the
\* invalid-amount message and leaves the ledger and the file as they were.
C30_SeveralCommasFail ==
    /\ (/\ codec.fn = "parse_amount" /\ codec.s # PyNone
         /\ Count(Purge(codec.s), ",") >= 2 /\ Count(Purge(codec.s), ".") = 0) =>
            ~codec.ok
    /\ (/\ last.op = "choice1"
         /\ Count(Purge(last.in.amount), ",") >= 2
         /\ Count(Purge(last.in.amount), ".") = 0) =>
            /\ ~last.saved /\ last.msg = "invalid_amount"
            /\ expenses = last.pre /\ file = last.prefile
            /\ tracker = "ok"

\* 1,1,1 was typed as the amount and then handed to parse_amount: the entry
\* was refused and the parse failed
C30_Witness ==
    /\ last.op = "choice1" /\ last.in.amount = <<"1", ",", "1", ",", "1">>
    /\ last.msg = "invalid_amount" /\ expenses = <<>>
    /\ codec.fn = "parse_amount" /\ codec.s = last.in.amount /\ ~codec.ok

\* C29: plot_summary sums by the exact category text while
\* search_by_category ignores case: every group's total is the sum over the
\* records with exactly that category, so categories differing only in case
\* are separate groups.
C29_SummaryGroupsByExactCategory ==
    (screen.op = "plot" /\ screen.of # <<>>) =>
        LET totals == screen.out.totals
        IN /\ \A i \in 1..Len(totals) :
                 /\ totals[i].v = CatSum(screen.of, totals[i].k)
                 /\ \A j \in 1..Len(totals) : totals[i].k = totals[j].k => i = j
           /\ \A i \in 1..Len(screen.of) :
                 ~isnan(screen.of[i].amount) =>
                     \E j \in 1..Len(totals) : totals[j].k = screen.of[i].category

\* Food and food are two groups, and the total of group Food differs from
\* the sum over the records a search for Food reports
C29_Witness ==
    /\ screen.op = "plot"
    /\ \E i, j \in 1..Len(screen.out.totals) :
          /\ screen.out.totals[i].k = Food /\ screen.out.totals[j].k = food
          /\ screen.out.totals[i].v
                 # get_total(search_by_category(screen.of, Food).results)

\* The entered pair is one the loaded credentials hold
Matches(l) ==
    \E i \in 1..Len(l.users) :
        /\ l.users[i].k = l.username /\ l.users[i].v = l.password
        /\ \A j \in 1..Len(l.users) : l.users[j].k = l.username => j = i

\* C28: the main menu is entered and the ledger file is read or written
\* only after authenticate_user returned a username whose entered password
\* is the one the loaded credentials give it; at most three attempts are
\* made, none after the first match; after three failed attempts None is
\* returned and the program ends with no tracker constructed.
C28_MenuOnlyAfterLogin ==
    /\ [](/\ (login.pc = "menu" \/ tracker # "none" \/ last.op # "init") =>
                /\ login.pc = "menu"
                /\ login.user = login.username /\ login.user # PyNone
                /\ Matches(login)
          /\ login.fails <= 3
          /\ login.user # PyNone => login.fails <= 2 /\ Matches(login)
          /\ (login.pc = "auth" /\ login.fails > 0) => ~Matches(login)
          /\ login.fails = 3 =>
                /\ login.user = PyNone /\ login.pc \in {"returned", "ended"}
                /\ tracker = "none" /\ last.op = "init"
          /\ (login.pc \in {"returned", "ended"} /\ login.user = PyNone) =>
                login.fails = 3)
    /\ [][/\ (file' # file \/ last' # last \/ tracker' # tracker) =>
                login.pc = "menu" /\ Matches(login) /\ login' = login
          /\ login.user # PyNone =>
                /\ login'.fails = login.fails
                /\ login'.username = login.username
                /\ login'.user = login.user
          /\ login.pc = "ended" => login' = login]_vars

\* alice logged in at the second attempt with the password of her later
\* row, and an entry was then added
C28_Witness ==
    /\ login.pc = "menu" /\ login.fails = 1
    /\ login.user = alice /\ login.password = PwSecond
    /\ tracker = "ok" /\ adds = 1
    /\ last.op = "add"
====
